---------------------------- MODULE Spec2Model ----------------------------
(***************************************************************************)
(* Aural Landscapes: the oscillator, its amplitude envelope, the           *)
(* oscillator list of the AudioPlayer, and the two threads that share the  *)
(* list: main()'s control loop and the PortAudio render callback.          *)
(*                                                                         *)
(* C floats are modelled as exact rationals <<num, den>> (den > 0, lowest  *)
(* terms) plus one non-finite value that stands for +-inf and NaN; C ints   *)
(* keep their 32-bit range where an increment can leave it.  Pointers are  *)
(* heap addresses: NULL is 0, and a cell keeps its last content after      *)
(* free().                                                                 *)
(***************************************************************************)
EXTENDS Integers, Sequences, FiniteSets, TLC

(***************************************************************************)
(* Bounds of the model.                                                    *)
(***************************************************************************)
\* The sample rate handed to new_audio_player, scaled down (main uses 48000).
SampleRate == 2
\* Longest oscillator length and wait time, in samples.
MaxLen == 2
MaxWait == 1
\* Ticks applied to one oscillator in the oscillator-only specification.
MaxTicks == 5
\* Oscillators main adds over the whole run, iterations of its loop, calls of
\* the render callback, and frames asked for by one call.
MaxOsc == 3
\* The same where main's operations and the callback's interleave freely.
MaxConcOsc == 2
MaxLoops == 2
MaxCalls == 2
MaxFrames == 2

(***************************************************************************)
(* Program constants.                                                      *)
(***************************************************************************)
INT_MAX == 2147483647
INT_MIN == -INT_MAX - 1
NULL == 0

(***************************************************************************)
(* float arithmetic                                                        *)
(***************************************************************************)
NonFinite == <<0, 0>>

IsFinite(x) == x[2] # 0

Abs(n) == IF n < 0 THEN -n ELSE n

RECURSIVE GCD(_, _)
GCD(a, b) == IF b = 0 THEN a ELSE GCD(b, a % b)

\* The float n/d; a zero divisor gives inf or NaN.
Rat(n, d) ==
    IF d = 0 THEN NonFinite
    ELSE LET s == IF d < 0 THEN -1 ELSE 1
             g == GCD(Abs(n), Abs(d))
         IN  <<(s * n) \div g, (s * d) \div g>>

IntToFloat(i) == <<i, 1>>

FAdd(a, b) ==
    IF IsFinite(a) /\ IsFinite(b)
    THEN Rat(a[1] * b[2] + b[1] * a[2], a[2] * b[2]) ELSE NonFinite

FNeg(a) == IF IsFinite(a) THEN <<-a[1], a[2]>> ELSE NonFinite

FSub(a, b) == FAdd(a, FNeg(b))

FMul(a, b) ==
    IF IsFinite(a) /\ IsFinite(b)
    THEN Rat(a[1] * b[1], a[2] * b[2]) ELSE NonFinite

FDiv(a, b) ==
    IF IsFinite(a) /\ IsFinite(b)
    THEN Rat(a[1] * b[2], a[2] * b[1]) ELSE NonFinite

\* Comparisons; every comparison with the non-finite value is false, as
\* the comparisons the program makes with NaN or +inf on the right are.
FLess(a, b) == IsFinite(a) /\ IsFinite(b) /\ a[1] * b[2] < b[1] * a[2]

FGreater(a, b) == FLess(b, a)

\* (float) i > x for an int i, compared without forming i * den.
IntGreater(i, x) == IsFinite(x) /\ i > x[1] \div x[2]

\* (int) x: truncation toward zero.
FloatToInt(x) ==
    IF ~IsFinite(x) THEN INT_MIN
    ELSE IF x[1] >= 0 THEN x[1] \div x[2] ELSE -((-x[1]) \div x[2])

\* x++ on an int when it stays in range, and wrapped when it does not.
IncInt(x) == IF x = INT_MAX THEN INT_MIN ELSE x + 1


(***************************************************************************)
(* State                                                                   *)
(***************************************************************************)
VARIABLES
    tabs,       \* the lookup tables main generated: a sequence of float arrays
    bps,        \* the Breakpoints structs loaded: a sequence of structs
    oob,        \* what lies in memory just past the end of those arrays
    tst,        \* the object under test where one part runs on its own
    oscs,       \* heap: the Oscillator cells malloc'ed so far
    nodes,      \* heap: the OscilNode cells malloc'ed so far
    player,     \* the AudioPlayer struct, its stream and its output file
    main,       \* the control thread: main()'s position and locals
    cb,         \* the render thread: audio_player_callback's position and locals
    fault       \* "none", or how the process was killed

(***************************************************************************)
(* Lookup tables (oscillator.c)                                            *)
(***************************************************************************)
gen_square_tab_RoundsUp(len) ==
    [i \in 1..len |->
        IF i - 1 < (len + 1) \div 2 THEN IntToFloat(1) ELSE IntToFloat(-1)]

\* gen_square_tab(len): len/2 entries of 1, then -1 up to len.
gen_square_tab(len) ==
    [i \in 1..len |-> IF i - 1 < len \div 2 THEN IntToFloat(1) ELSE IntToFloat(-1)]

\* The term amps[j] * sin(2*M_PI*(j+1)*i/(float)len) of one table entry: its
\* weight and the argument of the sine in turns, (j+1)*i/len.
FourierTerm(amp, j, i, len) == [amp |-> amp, turns |-> Rat((j + 1) * i, len)]

\* gen_fourier_tab(len, amps): entry i is the sum over j = 0..9 of the terms
\* above, kept as the sequence of its ten terms.
gen_fourier_tab(len, amps) ==
    [i \in 1..len |-> [j \in 1..10 |-> FourierTerm(amps[j], j - 1, i - 1, len)]]

\* float amps[10] = { ... } with fewer than ten initialisers: the rest are 0.
FloatArray10(given) ==
    [j \in 1..10 |-> IF j <= Len(given) THEN given[j] ELSE IntToFloat(0)]

\* The initialisers of the seven amps arrays of gen_warmth_tab, temp 1..7.
WarmthAmps ==
    LET Z == IntToFloat(0)
    IN  << <<Rat(8, 10), Rat(2, 10), Z, Z, Z, Z, Z, Z, Z>>,
           <<Rat(6, 10), Rat(3, 10), Rat(5, 100), Rat(5, 100), Z, Z, Z, Z, Z>>,
           <<Rat(4, 10), Rat(35, 100), Rat(1, 10), Rat(5, 100), Rat(4, 100),
             Z, Z, Z, Z>>,
           <<Rat(2, 10), Rat(4, 10), Rat(15, 100), Rat(1, 10), Rat(5, 100),
             Rat(4, 100), Z, Z, Z>>,
           <<Rat(15, 100), Rat(3, 10), Rat(3, 10), Rat(2, 10), Rat(25, 1000),
             Rat(2, 100), Rat(5, 1000), Z, Z>>,
           <<Rat(1, 10), Rat(15, 100), Rat(15, 100), Rat(3, 10), Rat(5, 100),
             Rat(3, 100), Rat(2, 100), Rat(5, 1000), Rat(5, 1000)>>,
           <<Rat(5, 100), Rat(8, 100), Rat(1, 10), Rat(15, 100), Rat(2, 10),
             Rat(1, 10), Rat(8, 100), Rat(2, 100), Rat(1, 100)>> >>

\* The else branch: float amps[10] = {1, 0, 0, 0, 0, 0, 0, 0, 0}.
WarmthElse ==
    LET Z == IntToFloat(0) IN <<IntToFloat(1), Z, Z, Z, Z, Z, Z, Z, Z>>

gen_warmth_tab_amps_Clamped(temp) ==
    FloatArray10(IF temp >= 1
                 THEN WarmthAmps[IF temp > 7 THEN 7 ELSE temp]
                 ELSE WarmthElse)

\* The amps array gen_warmth_tab builds for a temperature: the chain of
\* temp == 1, ..., temp == 7 and the final else.
gen_warmth_tab_amps(temp) ==
    FloatArray10(IF temp \in 1..7 THEN WarmthAmps[temp] ELSE WarmthElse)

gen_warmth_tab(len, temp) == gen_fourier_tab(len, gen_warmth_tab_amps(temp))

\* tab[index] as oscil_tick reads it.  The array holds entries 0..tablen-1;
\* a read outside them returns whatever lies next to the array.
TabInBounds(tab, index) == index >= 0 /\ index < Len(tabs[tab])

TabRead(tab, index) ==
    IF TabInBounds(tab, index) THEN tabs[tab][index + 1] ELSE oob.tab

(***************************************************************************)
(* Breakpoints (breakpoints.c)                                             *)
(***************************************************************************)
Breakpoint(t, v) == [time |-> t, val |-> v]

\* bp->list[j]: entries 0..len-1 are the breakpoints, a read past them
\* returns the memory behind the allocation.
BpInBounds(bp, j) == j >= 0 /\ j < Len(bp.list)

BpRead(bp, j) == IF BpInBounds(bp, j) THEN bp.list[j + 1] ELSE oob.bp

\* The value of i when the scan "for(i = 0; i < len-1; i++) if(list[i+1].time
\* > time) break;" ends.
RECURSIVE ScanFrom(_, _, _)
ScanFrom(bp, time, i) ==
    IF i < bp.len - 1
    THEN IF FGreater(BpRead(bp, i + 1).time, time) THEN i
         ELSE ScanFrom(bp, time, i + 1)
    ELSE i

\* Variant of the scan that never leaves the first breakpoint.
get_timeval_index_First(bp, time) == 0

get_timeval_index(bp, time) == ScanFrom(bp, time, 0)

\* Whether get_timeval returns before it reads the list.
get_timeval_rejects(bp, time) == FLess(time, IntToFloat(0)) \/ bp.len = 0

\* The entries of bp->list the scan reads: list[i+1] in every turn.
RECURSIVE ScanReads(_, _, _)
ScanReads(bp, time, i) ==
    IF i < bp.len - 1
    THEN {i + 1} \cup (IF FGreater(BpRead(bp, i + 1).time, time) THEN {}
                       ELSE ScanReads(bp, time, i + 1))
    ELSE {}

\* The entries of bp->list one call of get_timeval reads: none when it
\* returns early, else those of the scan and list[i], list[i+1] of the
\* interpolation.
get_timeval_reads(bp, time) ==
    IF get_timeval_rejects(bp, time) THEN {}
    ELSE LET i == get_timeval_index(bp, time)
         IN  ScanReads(bp, time, 0)
                \cup (IF i = bp.len THEN {i} ELSE {i, i + 1})

\* get_timeval without its test for an empty list.
get_timeval_NoEmptyTest(bp, time) ==
    IF FLess(time, IntToFloat(0)) THEN IntToFloat(0)
    ELSE LET i == get_timeval_index(bp, time)
         IN  IF i = bp.len THEN BpRead(bp, i).val
             ELSE FAdd(BpRead(bp, i).val,
                       FMul(FSub(BpRead(bp, i + 1).val, BpRead(bp, i).val),
                            FDiv(FSub(time, BpRead(bp, i).time),
                                 FSub(BpRead(bp, i + 1).time, BpRead(bp, i).time))))

get_timeval(bp, time) ==
    IF FLess(time, IntToFloat(0)) THEN IntToFloat(0)
    ELSE IF bp.len = 0 THEN IntToFloat(0)
    ELSE LET i == get_timeval_index(bp, time)
         IN  IF i = bp.len THEN BpRead(bp, i).val
             ELSE LET dt == FSub(BpRead(bp, i + 1).time, BpRead(bp, i).time)
                      da == FSub(BpRead(bp, i + 1).val, BpRead(bp, i).val)
                      frac == FDiv(FSub(time, BpRead(bp, i).time), dt)
                  IN  FAdd(BpRead(bp, i).val, FMul(da, frac))

get_percentval(bp, percentage) == get_timeval(bp, FMul(bp.maxtime, percentage))

\* One line of a breakpoint file as sscanf(line, "%f, %f\n", &time, &val)
\* sees it: the number of conversions it made, and what it stored.  A blank
\* line, text, or a line with one number converts fewer than two.
PairLine(t, v) == [converted |-> 2, time |-> t, val |-> v]

BadLine == [converted |-> 0, time |-> IntToFloat(0), val |-> IntToFloat(0)]

\* The validation of a parsed time in load_bp_file: the first must be 0, a
\* later one must not be smaller than the one stored before it.
TimeRejected(list, time) ==
    IF Len(list) = 0 THEN time # IntToFloat(0)
    ELSE FLess(time, list[Len(list)].time)

\* The while(fgets(...)) loop of load_bp_file over the lines not yet read:
\* list holds the count breakpoints stored so far, time is the local the last
\* sscanf wrote.
RECURSIVE ReadLines(_, _, _)
ReadLines(lines, list, time) ==
    IF Len(list) = Len(lines)
    THEN [null |-> FALSE, list |-> list, time |-> time]
    ELSE LET line == lines[Len(list) + 1]
         IN  IF line.converted # 2
               THEN [null |-> TRUE, list |-> <<>>, time |-> time]
             ELSE IF TimeRejected(list, line.time)
               THEN [null |-> TRUE, list |-> <<>>, time |-> line.time]
             ELSE ReadLines(lines,
                            Append(list, Breakpoint(line.time, line.val)),
                            line.time)

\* load_bp_file on a file that opens, with memory available.  null tells
\* whether it returned NULL.  stack is what the local "time" holds before
\* the first sscanf writes it: maxtime is that value when the file has no
\* line.
load_bp_file(lines, stack) ==
    LET r == ReadLines(lines, <<>>, stack)
    IN  [null |-> r.null,
         bp   |-> [list |-> r.list, len |-> Len(r.list), maxtime |-> r.time]]

(***************************************************************************)
(* Oscillator (oscillator.c)                                               *)
(***************************************************************************)
new_osc(id, tab, tablen, vol_bp, samplerate, freq, amplitude, length, waittime) ==
    [ id          |-> id,
      tab         |-> tab,
      tablen      |-> tablen,
      vol_bp      |-> vol_bp,
      samplerate  |-> samplerate,
      freq        |-> freq,
      amplitude   |-> amplitude,
      slength     |-> FMul(length, IntToFloat(samplerate)),
      index       |-> 0,
      curr_t      |-> IntToFloat(0),
      curr_sample |-> FloatToInt(FMul(FNeg(waittime), IntToFloat(samplerate))),
      inc         |-> FloatToInt(FDiv(FMul(freq, IntToFloat(tablen)),
                                      IntToFloat(samplerate))),
      tinc        |-> FDiv(IntToFloat(1), IntToFloat(samplerate)) ]

\* Variant of the test below that also holds sample 0 back.
OutOfRange_HoldsZero(osc) ==
    osc.curr_sample <= 0 \/ IntGreater(osc.curr_sample, osc.slength)

\* The test at the top of oscil_tick: the sample is before 0 or past the length.
OutOfRange(osc) ==
    osc.curr_sample < 0 \/ IntGreater(osc.curr_sample, osc.slength)

\* The percentage oscil_tick hands to get_percentval on an active tick.
TickPerc(osc) == FDiv(IntToFloat(IncInt(osc.curr_sample)), osc.slength)

\* oscil_tick: the oscillator after the call, the value returned, and what
\* the call read on the way (ghost fields for the properties below).
oscil_tick(osc) ==
    LET o == osc
    IN  IF OutOfRange(o)
        THEN [ osc    |-> [o EXCEPT !.curr_sample = IncInt(o.curr_sample)],
               ret    |-> IntToFloat(0),
               active |-> FALSE,
               read   |-> -1,
               perc   |-> NonFinite ]
        ELSE LET inc  == FloatToInt(FDiv(FMul(o.freq, IntToFloat(o.tablen)),
                                         IntToFloat(o.samplerate)))
                 idx  == o.index + inc
                 perc == TickPerc(o)
                 val  == FMul(o.amplitude, TabRead(o.tab, o.index))
                 amp  == get_percentval(bps[o.vol_bp], perc)
             IN  [ osc    |-> [o EXCEPT
                                 !.curr_sample = IncInt(o.curr_sample),
                                 !.inc = inc,
                                 !.index = IF idx > o.tablen THEN idx - o.tablen
                                           ELSE idx,
                                 !.curr_t = FAdd(o.curr_t, o.tinc)],
                   ret    |-> FMul(val, amp),
                   active |-> TRUE,
                   read   |-> o.index,
                   perc   |-> perc ]

\* curr_sample++ leaves the range of int: undefined behaviour.
TickOverflows(osc) == osc.curr_sample = INT_MAX

\* Variant of oscil_expired that already holds at curr_sample = slength.
oscil_expired_AtLength(osc) ==
    IsFinite(osc.slength) /\ ~FLess(IntToFloat(osc.curr_sample), osc.slength)

oscil_expired(osc) == IntGreater(osc.curr_sample, osc.slength)


(***************************************************************************)
(* Inputs                                                                  *)
(***************************************************************************)
\* main: "int tablen = SAMPLE_RATE".
TabLen == SampleRate

Tables == <<gen_square_tab(TabLen)>>

\* A Breakpoints struct as load_bp_file leaves it for a well-formed file.
MkBreakpoints(list) ==
    [list |-> list, len |-> Len(list), maxtime |-> list[Len(list)].time]

Envelopes ==
    { MkBreakpoints(<<Breakpoint(IntToFloat(0), IntToFloat(0)),
                      Breakpoint(IntToFloat(1), IntToFloat(1)),
                      Breakpoint(IntToFloat(2), IntToFloat(0))>>),
      MkBreakpoints(<<Breakpoint(IntToFloat(0), IntToFloat(1))>>) }

\* Memory behind the arrays: zeroed, or left over from an earlier use.
Garbage ==
    { [tab |-> IntToFloat(0), bp |-> Breakpoint(IntToFloat(0), IntToFloat(0))],
      [tab |-> IntToFloat(7), bp |-> Breakpoint(IntToFloat(3), IntToFloat(5))] }

\* Lengths and wait times in seconds: whole and half samples.
Lengths == {Rat(k, 2 * SampleRate) : k \in 0..(2 * MaxLen)}
Waits == {Rat(k, 2 * SampleRate) : k \in 0..(2 * MaxWait)}
Freqs == {Rat(1, 2), IntToFloat(1), IntToFloat(3)}
Amps == {IntToFloat(1), Rat(2, 5)}

(***************************************************************************)
(* The oscillator alone: new_osc, then oscil_tick over and over            *)
(***************************************************************************)
NoOsc == [id |-> -1]
NoPlayer == [osc_list |-> NULL]

OscInit ==
    /\ tabs = Tables
    /\ bps \in {<<e>> : e \in Envelopes}
    /\ oob \in Garbage
    /\ tst = [ osc     |-> NoOsc,     \* the oscillator
               osc0    |-> NoOsc,     \* as new_osc returned it
               length  |-> NonFinite, \* the length new_osc was given, seconds
               wait    |-> NonFinite, \* the waittime new_osc was given, seconds
               prev    |-> NoOsc,     \* before the last call of oscil_tick
               last    |-> NoOsc,     \* what the last call of oscil_tick gave
               k       |-> 0,         \* calls of oscil_tick so far
               rets    |-> <<>>,      \* the values they returned
               aged    |-> FALSE,     \* OscTickMany has run
               trapped |-> FALSE ]    \* the program was stopped by a trap
    /\ oscs = <<>>
    /\ nodes = <<>>
    /\ player = NoPlayer
    /\ main = [pc |-> "none"]
    /\ cb = [pc |-> "none"]
    /\ fault = "none"

pvars == <<oscs, nodes, player, main, cb, fault>>

vars == <<tabs, bps, oob, tst, oscs, nodes, player, main, cb, fault>>

\* new_osc with each input drawn from its set.
OscNew ==
    /\ tst.osc = NoOsc
    /\ \E f \in Freqs, a \in Amps, l \in Lengths, w \in Waits :
         LET o == new_osc(0, 1, TabLen, 1, SampleRate, f, a, l, w)
         IN  tst' = [tst EXCEPT !.osc = o, !.osc0 = o, !.prev = o,
                                    !.length = l, !.wait = w]
    /\ UNCHANGED <<tabs, bps, oob, pvars>>

\* One call of oscil_tick.
OscTick ==
    /\ tst.osc # NoOsc
    /\ ~tst.trapped
    /\ tst.k < MaxTicks
    /\ LET r == oscil_tick(tst.osc)
       IN  tst' = [tst EXCEPT !.osc = r.osc, !.prev = tst.osc, !.k = tst.k + 1,
                              !.rets = Append(tst.rets, r.ret), !.last = r]
    /\ UNCHANGED <<tabs, bps, oob, pvars>>

\* Many calls of oscil_tick on an expired oscillator that stays in the list:
\* each of them only counts curr_sample up by one, so it gets to the top of
\* the int range.
OscTickMany ==
    /\ tst.osc # NoOsc
    /\ ~tst.trapped
    /\ ~tst.aged
    /\ oscil_expired(tst.osc)
    /\ \E c \in {INT_MAX - 1, INT_MAX} :
         tst' = [tst EXCEPT !.osc.curr_sample = c,
                            !.prev = [tst.osc EXCEPT !.curr_sample = c - 1],
                            !.last = oscil_tick([tst.osc EXCEPT !.curr_sample = c - 1]),
                            !.aged = TRUE]
    /\ UNCHANGED <<tabs, bps, oob, pvars>>

\* The call of oscil_tick whose curr_sample++ overflows, in a build that
\* traps on it.
OscTickTrap ==
    /\ tst.osc # NoOsc
    /\ ~tst.trapped
    /\ tst.k < MaxTicks
    /\ TickOverflows(tst.osc)
    /\ tst' = [tst EXCEPT !.trapped = TRUE]
    /\ UNCHANGED <<tabs, bps, oob, pvars>>

OscNext == OscNew \/ OscTick \/ OscTickMany \/ OscTickTrap

OscSpec == OscInit /\ [][OscNext]_vars

(***************************************************************************)
(* The envelope alone: load_bp_file, then get_timeval, get_percentval and  *)
(* the first oscil_tick of an oscillator that uses it                      *)
(***************************************************************************)
MaxLines == 4

\* The lines of a breakpoint file: no pair, or a time ("nan" converts too)
\* and a value.
Lines ==
    {BadLine} \cup
    {PairLine(t, v) : t \in {IntToFloat(0), IntToFloat(1), IntToFloat(2),
                             IntToFloat(10), NonFinite},
                      v \in {IntToFloat(0), IntToFloat(1)}}

BpFiles == UNION {[1..n -> Lines] : n \in 0..MaxLines}

\* What the stack slot of load_bp_file's local "time" can hold on entry.
StackTimes == {IntToFloat(7), IntToFloat(-3)}

\* The times and percentages get_timeval and get_percentval are called with.
EvalTimes ==
    {IntToFloat(-1), IntToFloat(0), Rat(1, 2), IntToFloat(1), Rat(3, 2),
     IntToFloat(2), IntToFloat(5), IntToFloat(10), IntToFloat(11)}

Percents == {IntToFloat(0), Rat(1, 2), IntToFloat(1)}

BpInit ==
    /\ tabs = Tables
    /\ bps = <<>>
    /\ oob \in Garbage
    /\ tst = [ pc    |-> "file",    \* "file", then "loaded" or "failed"
               file  |-> <<>>,      \* the lines load_bp_file was given
               stack |-> NonFinite, \* its local "time" on entry
               op    |-> "none",    \* the last call: "time", "percent", "tick"
               arg   |-> NonFinite, \* its argument
               ret   |-> NonFinite, \* the value it returned
               reads |-> {},        \* the entries of bp->list it read
               tick  |-> NoOsc ]    \* what oscil_tick gave
    /\ oscs = <<>>
    /\ nodes = <<>>
    /\ player = NoPlayer
    /\ main = [pc |-> "none"]
    /\ cb = [pc |-> "none"]
    /\ fault = "none"

\* main: "Breakpoints* bp = load_bp_file(...)".
BpLoad ==
    /\ tst.pc = "file"
    /\ \E file \in BpFiles, stack \in StackTimes :
         LET r == load_bp_file(file, stack)
         IN  /\ tst' = [tst EXCEPT !.pc = IF r.null THEN "failed" ELSE "loaded",
                                   !.file = file, !.stack = stack]
             /\ bps' = IF r.null THEN bps ELSE <<r.bp>>
    /\ UNCHANGED <<tabs, oob, pvars>>

BpTimeval ==
    /\ tst.pc = "loaded"
    /\ tst.op = "none"
    /\ \E time \in EvalTimes :
         tst' = [tst EXCEPT !.op = "time", !.arg = time,
                            !.ret = get_timeval(bps[1], time),
                            !.reads = get_timeval_reads(bps[1], time),
                            !.tick = NoOsc]
    /\ UNCHANGED <<tabs, bps, oob, pvars>>

BpPercentval ==
    /\ tst.pc = "loaded"
    /\ tst.op = "none"
    /\ \E percentage \in Percents :
         tst' = [tst EXCEPT !.op = "percent", !.arg = percentage,
                            !.ret = get_percentval(bps[1], percentage),
                            !.reads = get_timeval_reads(bps[1],
                                          FMul(bps[1].maxtime, percentage)),
                            !.tick = NoOsc]
    /\ UNCHANGED <<tabs, bps, oob, pvars>>

\* new_osc with this envelope and no wait, and its first oscil_tick.
BpTick ==
    /\ tst.pc = "loaded"
    /\ tst.op = "none"
    /\ \E l \in Lengths :
         LET o == new_osc(0, 1, TabLen, 1, SampleRate, IntToFloat(1),
                          IntToFloat(1), l, IntToFloat(0))
             r == oscil_tick(o)
         IN  tst' = [tst EXCEPT !.op = "tick", !.arg = l, !.ret = r.ret,
                                !.reads = get_timeval_reads(bps[1],
                                              FMul(bps[1].maxtime, r.perc)),
                                !.tick = r]
    /\ UNCHANGED <<tabs, bps, oob, pvars>>

BpNext == BpLoad \/ BpTimeval \/ BpPercentval \/ BpTick

BpSpec == BpInit /\ [][BpNext]_vars

(***************************************************************************)
(* The heap: Oscillator and OscilNode cells                                *)
(***************************************************************************)
\* A pointer field malloc left unset, and a pointer to no object at all.
Uninit == -1
Wild == -2

\* What a read of an unset pointer field can give.
UninitReads == {NULL, Wild}

\* malloc(sizeof(Oscillator)) filled in by new_osc; malloc(sizeof(OscilNode))
\* with node->osc set by oscil_list_add.  frees counts the calls of free().
OscCell(osc) == [frees |-> 0, val |-> osc]

NodeCell(osc) == [frees |-> 0, osc |-> osc, next |-> Uninit, prev |-> Uninit]

\* Variant of free that releases the cell twice.
free_Twice(cells, p) == [cells EXCEPT ![p].frees = @ + 2]

free(cells, p) == [cells EXCEPT ![p].frees = @ + 1]

IsObject(cells, p) == p >= 1 /\ p <= Len(cells)

Freed(cells, p) == IsObject(cells, p) /\ cells[p].frees > 0

\* The nodes reached from p through next, up to NULL or a pointer that is
\* not a node.
RECURSIVE NodesFrom(_, _)
NodesFrom(ns, p) ==
    IF IsObject(ns, p) THEN <<p>> \o NodesFrom(ns, ns[p].next) ELSE <<>>

Range(seq) == {seq[j] : j \in 1..Len(seq)}

(***************************************************************************)
(* Oscillator linked list (oscillator.c)                                   *)
(***************************************************************************)
\* Variant of the search below that stops at the first node.
ListTail_First(ns, head) == head

\* oscil_list_add, the search for the tail: "while(curr->next != NULL)".
ListTail(ns, head) == LET l == NodesFrom(ns, head) IN l[Len(l)]

\* oscil_list_add up to the store that makes node reachable: "*head = node"
\* for an empty list, "curr->next = node" at the tail otherwise.
oscil_list_add_link(ns, head, node) ==
    IF head = NULL
    THEN [nodes |-> ns, head |-> node, tail |-> NULL]
    ELSE [nodes |-> [ns EXCEPT ![ListTail(ns, head)].next = node],
          head  |-> head, tail |-> ListTail(ns, head)]

\* The rest of oscil_list_add: node->next = NULL, node->prev = NULL or curr.
oscil_list_add_finish(ns, node, tail) ==
    [ns EXCEPT ![node].next = NULL, ![node].prev = tail]

\* Variant of the search below that looks at the head only.
FindId_HeadOnly(ns, os, head, id) ==
    IF os[ns[head].osc].val.id = id THEN head ELSE NULL

\* Variant of the search below that finds the last node with the id.
FindId_Last(ns, os, head, id) ==
    LET l == NodesFrom(ns, head)
        hits == {j \in 1..Len(l) : os[ns[l[j]].osc].val.id = id}
    IN  IF hits = {} THEN NULL
        ELSE l[CHOOSE j \in hits : \A h \in hits : j >= h]

\* The first node from head whose oscillator has the id, NULL if there is none.
FindId(ns, os, head, id) ==
    LET l == NodesFrom(ns, head)
        hits == {j \in 1..Len(l) : os[ns[l[j]].osc].val.id = id}
    IN  IF hits = {} THEN NULL
        ELSE l[CHOOSE j \in hits : \A h \in hits : j <= h]

\* Variant of the operator below in which oscil_free releases the table of
\* the oscillator as well.
oscil_free_tabs_Freed(ts, os, os2) ==
    LET gone == {p \in 1..Len(os) : os2[p].frees # os[p].frees}
    IN  [t \in 1..Len(ts) |->
            IF \E p \in gone : os[p].val.tab = t THEN <<>> ELSE ts[t]]

\* The lookup tables after the calls of oscil_free that took the heap from
\* os to os2: "free(osc)" releases the Oscillator alone, neither its table
\* nor its Breakpoints.
oscil_free_tabs(ts, os, os2) == ts

\* Variant of the operator below that frees the node and its oscillator
\* and leaves the neighbours' next and prev as they were.
oscil_list_remove_Unlinked(ns, os, head, id) ==
    LET c == IF head = NULL THEN NULL ELSE FindId(ns, os, head, id)
    IN  IF c = NULL THEN [nodes |-> ns, oscs |-> os, head |-> head]
        ELSE [nodes |-> free(ns, c), oscs |-> free(os, ns[c].osc),
              head |-> IF c = head THEN ns[c].next ELSE head]

\* oscil_list_remove(head, id): the heap and the head after the call.
oscil_list_remove(ns, os, head, id) ==
    LET c == IF head = NULL THEN NULL ELSE FindId(ns, os, head, id)
    IN  IF c = NULL THEN [nodes |-> ns, oscs |-> os, head |-> head]
        ELSE IF c = head
        THEN LET nx  == ns[c].next
                 ns1 == IF nx # NULL THEN [ns EXCEPT ![nx].prev = NULL] ELSE ns
             IN  [nodes |-> free(ns1, c), oscs |-> free(os, ns[c].osc),
                  head |-> nx]
        ELSE LET nx  == ns[c].next
                 pv  == ns[c].prev
                 ns1 == IF pv # NULL THEN [ns EXCEPT ![pv].next = nx] ELSE ns
                 ns2 == IF nx # NULL THEN [ns1 EXCEPT ![nx].prev = pv] ELSE ns1
             IN  [nodes |-> free(ns2, c), oscs |-> free(os, ns[c].osc),
                  head |-> head]

(***************************************************************************)
(* The list alone: oscil_list_add and oscil_list_remove with any id        *)
(***************************************************************************)
\* The ids given to oscil_list_add (an id can come twice) and asked of
\* oscil_list_remove (MaxIds is never in the list).
MaxIds == 2

ListInit ==
    /\ tabs = Tables
    /\ bps \in {<<e>> : e \in Envelopes}
    /\ oob \in Garbage
    /\ tst = [ op    |-> "none",  \* the last call: "add" or "remove"
               id    |-> -1,      \* the id it was given
               head  |-> NULL,    \* *head, the nodes and the oscillators
               nodes |-> <<>>,    \*   before the call
               oscs  |-> <<>> ]
    /\ oscs = <<>>
    /\ nodes = <<>>
    /\ player = NoPlayer
    /\ main = [pc |-> "none"]
    /\ cb = [pc |-> "none"]
    /\ fault = "none"

\* oscil_list_add(&head, new_osc(id, ...)).
ListAdd ==
    /\ Len(oscs) < MaxOsc
    /\ \E id \in 0..(MaxIds - 1) :
         LET osc  == new_osc(id, 1, TabLen, 1, SampleRate, IntToFloat(1),
                             IntToFloat(1), IntToFloat(1), IntToFloat(0))
             node == Len(nodes) + 1
             r    == oscil_list_add_link(Append(nodes, NodeCell(Len(oscs) + 1)),
                                         player.osc_list, node)
         IN  /\ oscs' = Append(oscs, OscCell(osc))
             /\ nodes' = oscil_list_add_finish(r.nodes, node, r.tail)
             /\ player' = [player EXCEPT !.osc_list = r.head]
             /\ tst' = [op |-> "add", id |-> id, head |-> player.osc_list,
                        nodes |-> nodes, oscs |-> oscs]
    /\ UNCHANGED <<tabs, bps, oob, main, cb, fault>>

\* oscil_list_remove(&head, id).
ListRemove ==
    /\ \E id \in 0..MaxIds :
         LET r == oscil_list_remove(nodes, oscs, player.osc_list, id)
         IN  /\ oscs' = r.oscs
             /\ nodes' = r.nodes
             /\ player' = [player EXCEPT !.osc_list = r.head]
             /\ tst' = [op |-> "remove", id |-> id, head |-> player.osc_list,
                        nodes |-> nodes, oscs |-> oscs]
             /\ tabs' = oscil_free_tabs(tabs, oscs, r.oscs)
    /\ UNCHANGED <<bps, oob, main, cb, fault>>

ListNext == ListAdd \/ ListRemove

ListSpec == ListInit /\ [][ListNext]_vars

(***************************************************************************)
(* The table generators alone                                              *)
(***************************************************************************)
\* The table lengths and the temperatures the generators are called with
\* (main calls gen_warmth_tab with 7, 6, ..., 0).
MaxTabLen == 7

Temps == (-2)..10

TabInit ==
    /\ tabs = <<>>
    /\ bps = <<>>
    /\ oob \in Garbage
    /\ tst = [ fn   |-> "none",   \* the generator called last
               len  |-> 0,        \* its arguments
               temp |-> 0,
               amps |-> <<>> ]    \* the amps array it handed to gen_fourier_tab
    /\ oscs = <<>>
    /\ nodes = <<>>
    /\ player = NoPlayer
    /\ main = [pc |-> "none"]
    /\ cb = [pc |-> "none"]
    /\ fault = "none"

\* tabs[0] = gen_square_tab(len).
TabSquare ==
    /\ \E len \in 0..MaxTabLen :
         /\ tabs' = <<gen_square_tab(len)>>
         /\ tst' = [fn |-> "square", len |-> len, temp |-> 0, amps |-> <<>>]
    /\ UNCHANGED <<bps, oob, oscs, nodes, player, main, cb, fault>>

\* tabs[0] = gen_warmth_tab(len, temp).
TabWarmth ==
    /\ \E len \in 0..MaxTabLen, temp \in Temps :
         /\ tabs' = <<gen_warmth_tab(len, temp)>>
         /\ tst' = [fn |-> "warmth", len |-> len, temp |-> temp,
                    amps |-> gen_warmth_tab_amps(temp)]
    /\ UNCHANGED <<bps, oob, oscs, nodes, player, main, cb, fault>>

TabNext == TabSquare \/ TabWarmth

TabSpec == TabInit /\ [][TabNext]_vars

(***************************************************************************)
(* main's choice of a note: table and frequency (main.c)                   *)
(***************************************************************************)
NUM_TABS == 8

MaxKeyLen == 3

\* avg_warmth gives an int between -255 and 255, avg_perc_brightness a float
\* between 0 and 1; key->len is the number of lines of the key file.
Warmths == (-255)..255

Brightnesses == {IntToFloat(0), Rat(1, 2), Rat(9, 10), IntToFloat(1)}

KeyLens == 1..MaxKeyLen

\* (float) rand() / (float) RAND_MAX: both ends and a value between.
Rands == {IntToFloat(0), Rat(1, 2), IntToFloat(1)}

\* randint(beg, end): the values "rand() % (end-beg) + beg" takes.
randint(beg, end) == beg..(end - 1)

\* randfloat(beg, end) when rand() / RAND_MAX is r.
randfloat(r, beg, end) == FAdd(FMul(r, FSub(end, beg)), beg)

percent_in_range(perc, beg, end) == FAdd(FMul(perc, FSub(end, beg)), beg)

\* main: "float brightness = randfloat(0.5*avg_brightness,
\* 1.2*avg_brightness); if(brightness > 1) brightness = 1;".
NoteBrightness(avg_brightness, r) ==
    LET b == randfloat(r, FMul(Rat(1, 2), avg_brightness),
                       FMul(Rat(6, 5), avg_brightness))
    IN  IF FGreater(b, IntToFloat(1)) THEN IntToFloat(1) ELSE b

\* main: the index in "key->freqs[(int) percent_in_range(brightness, 0,
\* key->len)]".
FreqIndex(brightness, len) ==
    FloatToInt(percent_in_range(brightness, IntToFloat(0), IntToFloat(len)))

\* main: "float warmth = randint(...); warmth -= 30;", the two clamps,
\* "warmth += 100; warmth /= 200.0; int ind = NUM_TABS*warmth;" for the
\* value randint gave.
WarmthIndex(drawn) ==
    LET w0 == IntToFloat(drawn - 30)
        w1 == IF FLess(w0, IntToFloat(-100)) THEN IntToFloat(-100) ELSE w0
        w2 == IF FGreater(w1, IntToFloat(100)) THEN IntToFloat(100) ELSE w1
        w3 == FDiv(FAdd(w2, IntToFloat(100)), IntToFloat(200))
    IN  FloatToInt(FMul(IntToFloat(NUM_TABS), w3))

NoteInit ==
    /\ tabs = <<>>
    /\ bps = <<>>
    /\ oob \in Garbage
    /\ tst = [ op             |-> "none", \* "note" once a note was chosen
               avg_warm       |-> 0,      \* the region's warmth
               drawn          |-> 0,      \* what randint gave
               ind            |-> 0,      \* the index into tabs
               avg_brightness |-> IntToFloat(0),
               brightness     |-> IntToFloat(0),
               len            |-> 0,      \* key->len
               idx            |-> 0 ]     \* the index into key->freqs
    /\ oscs = <<>>
    /\ nodes = <<>>
    /\ player = NoPlayer
    /\ main = [pc |-> "none"]
    /\ cb = [pc |-> "none"]
    /\ fault = "none"

\* One turn of main's "for(int i = 0; i < num_notes; i++)" up to the
\* arguments of add_osc, for the first note.
NoteChoose ==
    /\ tst.op = "none"
    /\ \E avg_warm \in Warmths, avg_brightness \in Brightnesses,
          r \in Rands, len \in KeyLens :
         \E drawn \in randint(avg_warm - 10, avg_warm + 10) :
            LET brightness == NoteBrightness(avg_brightness, r)
            IN  tst' = [op |-> "note", avg_warm |-> avg_warm,
                        drawn |-> drawn, ind |-> WarmthIndex(drawn),
                        avg_brightness |-> avg_brightness,
                        brightness |-> brightness, len |-> len,
                        idx |-> FreqIndex(brightness, len)]
    /\ UNCHANGED <<tabs, bps, oob, oscs, nodes, player, main, cb, fault>>

NoteNext == NoteChoose

NoteSpec == NoteInit /\ [][NoteNext]_vars

(***************************************************************************)
(* osc_list_lock                                                           *)
(***************************************************************************)
\* new_audio_player never calls pthread_mutex_init, so the mutex holds what
\* malloc left there: the bits of an unlocked mutex, of a locked one, or of
\* no mutex at all, on which lock and unlock fail with EINVAL.
Mutexes ==
    { [valid |-> TRUE,  owner |-> "nobody"],
      [valid |-> TRUE,  owner |-> "junk"],
      [valid |-> FALSE, owner |-> "nobody"] }

\* pthread_mutex_lock returns (it blocks on a valid mutex that is owned).
CanLock(m) == ~m.valid \/ m.owner = "nobody"

pthread_mutex_lock(m, thread) == IF m.valid THEN [m EXCEPT !.owner = thread] ELSE m

\* Variant of unlock that leaves the mutex as it is.
pthread_mutex_unlock_Keeps(m) == m

pthread_mutex_unlock(m) == IF m.valid THEN [m EXCEPT !.owner = "nobody"] ELSE m

(***************************************************************************)
(* AudioPlayer (audio_player.c) and main's control loop (main.c)           *)
(***************************************************************************)
\* The notes main can schedule (freq, 0.4*amp, len, start), with length and
\* start in whole samples; and the ones with no wait.
Notes ==
    { [freq |-> IntToFloat(1), amp |-> Rat(2, 5),
       len |-> Rat(l, SampleRate), start |-> Rat(w, SampleRate)] :
         l \in {0, MaxLen}, w \in {0, MaxWait} }

ConcNotes == {note \in Notes : note.start = IntToFloat(0)}

\* new_audio_player(outfilename, SAMPLE_RATE) when it succeeds.
new_audio_player(write_output, mutex) ==
    [ osc_list      |-> NULL,
      samplerate    |-> SampleRate,
      write_output  |-> write_output,
      outfile       |-> IF write_output = 1 THEN "open" ELSE "unset",
      osc_list_lock |-> mutex,
      stream        |-> "stopped",
      written       |-> 0 ]

\* main: "add_osc(player, oscID++, ...)": the id main hands out next.  The
\* variant hands out the same id again.
NextOscID_Same(oscID) == oscID

NextOscID(oscID) == oscID + 1

MainIdle ==
    [ pc |-> "unlock", loops |-> 0, notes |-> 0, oscID |-> 0,
      curr |-> NULL, temp |-> NULL, osc |-> NULL, node |-> NULL, tail |-> NULL,
      before |-> <<>>, beforeOscs |-> <<>> ]

CbIdle ==
    [ pc |-> "idle", calls |-> 0, n |-> 0, i |-> 0, val |-> IntToFloat(0),
      curr |-> NULL, out |-> <<>>,
      \* ghosts of the call in progress
      locks |-> 0, unlocks |-> 0, snap |-> <<>>, snapOscs |-> <<>>,
      present |-> {}, ticked |-> {}, torn |-> FALSE, uaf |-> FALSE ]

\* main up to "MAIN LOOP": tables generated, envelope loaded, player created.
Init ==
    /\ tabs = Tables
    /\ bps \in {<<e>> : e \in {f \in Envelopes : f.len > 1}}
    /\ oob \in Garbage
    /\ tst = [osc |-> NoOsc]
    /\ oscs = <<>>
    /\ nodes = <<>>
    /\ \E w \in {0, 1}, m \in Mutexes : player = new_audio_player(w, m)
    /\ main = MainIdle
    /\ cb = CbIdle
    /\ fault = "none"

Running == fault = "none"

\* The callback is between two calls.
CbQuiet == cb.pc = "idle"

\* What the threads only read: the tables and the envelope.
fixed == <<tabs, bps, oob, tst>>

\* main.c:424  pthread_mutex_unlock(&player->osc_list_lock)
MainUnlock ==
    /\ Running /\ main.pc = "unlock"
    /\ player' = [player EXCEPT
                    !.osc_list_lock = pthread_mutex_unlock(player.osc_list_lock)]
    /\ main' = [main EXCEPT !.pc = "start"]
    /\ UNCHANGED <<fixed, oscs, nodes, cb, fault>>

\* start_stream
start_stream ==
    /\ Running /\ main.pc = "start"
    /\ player' = [player EXCEPT !.stream = "running"]
    /\ main' = [main EXCEPT !.pc = "loop"]
    /\ UNCHANGED <<fixed, oscs, nodes, cb, fault>>

\* while(!shouldClose()): the user has asked to quit.
MainClose ==
    /\ Running /\ main.pc = "loop"
    /\ main' = [main EXCEPT !.pc = "stop"]
    /\ UNCHANGED <<fixed, oscs, nodes, player, cb, fault>>

\* while(!shouldClose()) { synch_update(player): curr = player->osc_list
synch_update_begin ==
    /\ Running /\ main.pc = "loop"
    /\ main.loops < MaxLoops
    /\ main' = [main EXCEPT !.pc = "su_test", !.loops = @ + 1,
                            !.curr = player.osc_list,
                            !.before = NodesFrom(nodes, player.osc_list),
                            !.beforeOscs = oscs]
    /\ UNCHANGED <<fixed, oscs, nodes, player, cb, fault>>

\* synch_update: while(curr != NULL) if(oscil_expired(curr->osc)) ... else
\* curr = curr->next; and the end of the loop.
synch_update_test ==
    /\ Running /\ main.pc = "su_test"
    /\ IF main.curr = NULL
       THEN main' = [main EXCEPT !.pc = "notes"]
       ELSE IF oscil_expired(oscs[nodes[main.curr].osc].val)
       THEN main' = [main EXCEPT !.pc = "su_remove",
                                 !.temp = nodes[main.curr].next]
       ELSE main' = [main EXCEPT !.curr = nodes[main.curr].next]
    /\ UNCHANGED <<fixed, oscs, nodes, player, cb, fault>>

\* synch_update: oscil_list_remove(&player->osc_list, curr->osc->id); curr = temp
synch_update_remove ==
    /\ Running /\ main.pc = "su_remove"
    /\ LET r == oscil_list_remove(nodes, oscs, player.osc_list,
                                  oscs[nodes[main.curr].osc].val.id)
       IN  /\ nodes' = r.nodes
           /\ oscs' = r.oscs
           /\ player' = [player EXCEPT !.osc_list = r.head]
    /\ main' = [main EXCEPT !.pc = "su_test", !.curr = main.temp]
    /\ tabs' = oscil_free_tabs(tabs, oscs, oscs')
    /\ UNCHANGED <<bps, oob, tst, cb, fault>>

\* num_notes = randint(1, 3) or randint(1, 4), cut to the oscillators the
\* model has room for.
MainNotes(room) ==
    /\ Running /\ main.pc = "notes"
    /\ \E k \in 1..4 :
         /\ Len(oscs) + k <= room
         /\ main' = [main EXCEPT !.pc = "ao_lock", !.notes = k,
                                 !.before = <<>>, !.beforeOscs = <<>>]
    /\ UNCHANGED <<fixed, oscs, nodes, player, cb, fault>>

\* add_osc: pthread_mutex_lock(&player->osc_list_lock)
add_osc_lock ==
    /\ Running /\ main.pc = "ao_lock"
    /\ CanLock(player.osc_list_lock)
    /\ player' = [player EXCEPT
                    !.osc_list_lock = pthread_mutex_lock(player.osc_list_lock, "main")]
    /\ main' = [main EXCEPT !.pc = "ao_new",
                            !.before = NodesFrom(nodes, player.osc_list),
                            !.beforeOscs = oscs]
    /\ UNCHANGED <<fixed, oscs, nodes, cb, fault>>

\* add_osc: new_osc(...), then oscil_list_add up to node->osc = osc.
add_osc_new(notes) ==
    /\ Running /\ main.pc = "ao_new"
    /\ \E note \in notes :
         oscs' = Append(oscs,
                   OscCell(new_osc(main.oscID, 1, TabLen, 1, player.samplerate,
                                   note.freq, note.amp, note.len, note.start)))
    /\ nodes' = Append(nodes, NodeCell(Len(oscs) + 1))
    /\ main' = [main EXCEPT !.pc = "ao_link", !.osc = Len(oscs) + 1,
                            !.node = Len(nodes) + 1]
    /\ UNCHANGED <<fixed, player, cb, fault>>

\* add_osc when malloc returns NULL in new_osc or in oscil_list_add: neither
\* tests the pointer, and the first store through it ("osc->id = id",
\* "node->osc = osc") kills the process inside add_osc.  When it is the node
\* that could not be allocated the Oscillator has been built.
add_osc_nomem(notes) ==
    /\ Running /\ main.pc = "ao_new"
    /\ \/ oscs' = oscs
       \/ \E note \in notes :
            oscs' = Append(oscs,
                      OscCell(new_osc(main.oscID, 1, TabLen, 1, player.samplerate,
                                      note.freq, note.amp, note.len, note.start)))
    /\ fault' = "malloc"
    /\ UNCHANGED <<fixed, nodes, player, main, cb>>

\* oscil_list_add: the store that links the node in.
add_osc_link ==
    /\ Running /\ main.pc = "ao_link"
    /\ LET r == oscil_list_add_link(nodes, player.osc_list, main.node)
       IN  /\ nodes' = r.nodes
           /\ player' = [player EXCEPT !.osc_list = r.head]
           /\ main' = [main EXCEPT !.pc = "ao_fin", !.tail = r.tail]
    /\ UNCHANGED <<fixed, oscs, cb, fault>>

\* oscil_list_add: the node's own next and prev.
add_osc_finish ==
    /\ Running /\ main.pc = "ao_fin"
    /\ nodes' = oscil_list_add_finish(nodes, main.node, main.tail)
    /\ main' = [main EXCEPT !.pc = "ao_unlock"]
    /\ UNCHANGED <<fixed, oscs, player, cb, fault>>

\* add_osc: pthread_mutex_unlock; back in main: oscID++, the next note, or
\* Pa_Sleep(6000) and the next turn of the loop.
add_osc_unlock ==
    /\ Running /\ main.pc = "ao_unlock"
    /\ player' = [player EXCEPT
                    !.osc_list_lock = pthread_mutex_unlock(player.osc_list_lock)]
    /\ main' = [main EXCEPT !.pc = IF main.notes > 1 THEN "ao_lock" ELSE "loop",
                            !.notes = @ - 1, !.oscID = NextOscID(@),
                            !.osc = NULL, !.node = NULL, !.tail = NULL,
                            !.before = <<>>, !.beforeOscs = <<>>]
    /\ UNCHANGED <<fixed, oscs, nodes, cb, fault>>

\* main going on to free the resources without having stopped the stream.
stop_stream_Skipped ==
    /\ Running /\ main.pc = "stop"
    /\ main' = [main EXCEPT !.pc = "free"]
    /\ UNCHANGED <<fixed, oscs, nodes, player, cb, fault>>

\* stop_stream: Pa_StopStream returns once the callback is not running.
stop_stream ==
    /\ Running /\ main.pc = "stop"
    /\ CbQuiet
    /\ player' = [player EXCEPT !.stream = "stopped"]
    /\ main' = [main EXCEPT !.pc = "free"]
    /\ UNCHANGED <<fixed, oscs, nodes, cb, fault>>

\* free_audio_player: curr = player->osc_list
free_audio_player_begin ==
    /\ Running /\ main.pc = "free"
    /\ main' = [main EXCEPT !.pc = "fp_loop", !.curr = player.osc_list,
                            !.before = NodesFrom(nodes, player.osc_list)]
    /\ UNCHANGED <<fixed, oscs, nodes, player, cb, fault>>

\* free_audio_player: temp = curr->next; oscil_list_remove(...); curr = temp
free_audio_player_loop ==
    /\ Running /\ main.pc = "fp_loop"
    /\ main.curr # NULL
    /\ LET r == oscil_list_remove(nodes, oscs, player.osc_list,
                                  oscs[nodes[main.curr].osc].val.id)
       IN  /\ nodes' = r.nodes
           /\ oscs' = r.oscs
           /\ player' = [player EXCEPT !.osc_list = r.head]
    /\ main' = [main EXCEPT !.curr = nodes[main.curr].next]
    /\ tabs' = oscil_free_tabs(tabs, oscs, oscs')
    /\ UNCHANGED <<bps, oob, tst, cb, fault>>

\* free_audio_player: sf_close(player->outfile), Pa_CloseStream, free(player).
\* For a player without an output file outfile was never assigned.
free_audio_player_close ==
    /\ Running /\ main.pc = "fp_loop"
    /\ main.curr = NULL
    /\ player.outfile # "unset"
    /\ player' = [player EXCEPT !.outfile = "closed", !.stream = "closed"]
    /\ main' = [main EXCEPT !.pc = "done"]
    /\ UNCHANGED <<fixed, oscs, nodes, cb, fault>>

\* sf_close on the unset pointer: it returns an error, or the process dies.
free_audio_player_close_unset ==
    /\ Running /\ main.pc = "fp_loop"
    /\ main.curr = NULL
    /\ player.outfile = "unset"
    /\ \/ /\ player' = [player EXCEPT !.stream = "closed"]
          /\ main' = [main EXCEPT !.pc = "done"]
          /\ UNCHANGED fault
       \/ /\ fault' = "sf_close"
          /\ UNCHANGED <<player, main>>
    /\ UNCHANGED <<fixed, oscs, nodes, cb>>

(***************************************************************************)
(* audio_player_callback                                                   *)
(***************************************************************************)
\* The oscillators add_osc has handed over completely: those in the list,
\* but for the one of an add_osc that has not returned yet.
Added ==
    {nodes[p].osc : p \in Range(NodesFrom(nodes, player.osc_list))}
        \ (IF main.pc \in {"ao_fin", "ao_unlock"} THEN {main.osc} ELSE {})

\* PortAudio calls the callback for framesPerBuffer = n frames.
callback_begin ==
    /\ Running /\ cb.pc = "idle"
    /\ player.stream = "running"
    /\ cb.calls < MaxCalls
    /\ \E n \in 1..MaxFrames :
         cb' = [CbIdle EXCEPT !.pc = "lock", !.calls = cb.calls + 1, !.n = n,
                              !.present = Added]
    /\ UNCHANGED <<fixed, oscs, nodes, player, main, fault>>

\* pthread_mutex_lock(&player->osc_list_lock)
callback_lock ==
    /\ Running /\ cb.pc = "lock"
    /\ CanLock(player.osc_list_lock)
    /\ player' = [player EXCEPT
                    !.osc_list_lock = pthread_mutex_lock(player.osc_list_lock, "render")]
    /\ cb' = [cb EXCEPT !.pc = "sample", !.locks = @ + 1,
                        !.snap = NodesFrom(nodes, player.osc_list),
                        !.snapOscs = oscs]
    /\ UNCHANGED <<fixed, oscs, nodes, main, fault>>

\* for(i = 0; i < framesPerBuffer; i++) { val = 0; curr = player->osc_list;
\* and the exit from the loop.
callback_sample ==
    /\ Running /\ cb.pc = "sample"
    /\ IF cb.i < cb.n
       THEN cb' = [cb EXCEPT !.pc = "walk", !.val = IntToFloat(0),
                             !.curr = player.osc_list, !.ticked = {}]
       ELSE cb' = [cb EXCEPT !.pc = "unlock"]
    /\ UNCHANGED <<fixed, oscs, nodes, player, main, fault>>

\* Variant of the sum below that keeps the last value only.
Accumulate_Last(val, ret) == ret

\* val += oscil_tick(curr->osc)
Accumulate(val, ret) == FAdd(val, ret)

\* while(curr != NULL) { val += oscil_tick(curr->osc); curr = curr->next; }
\* one turn.  A node or oscillator that has been freed is read as it was
\* left; an unset next reads as one of UninitReads.
callback_tick ==
    /\ Running /\ cb.pc = "walk"
    /\ IsObject(nodes, cb.curr)
    /\ LET node == nodes[cb.curr]
           r    == oscil_tick(oscs[node.osc].val)
           gone == node.frees > 0 \/ oscs[node.osc].frees > 0
       IN  /\ oscs' = [oscs EXCEPT ![node.osc].val = r.osc]
           /\ \E nx \in (IF node.next = Uninit THEN UninitReads ELSE {node.next}) :
                cb' = [cb EXCEPT !.val = Accumulate(cb.val, r.ret),
                                 !.curr = nx,
                                 !.ticked = @ \cup {node.osc},
                                 !.torn = @ \/ node.next = Uninit,
                                 !.uaf = @ \/ gone]
    /\ UNCHANGED <<fixed, nodes, player, main, fault>>

\* The same turn when curr points to freed memory or to no object: the
\* access can kill the process.
callback_segv ==
    /\ Running /\ cb.pc = "walk"
    /\ \/ cb.curr = Wild
       \/ Freed(nodes, cb.curr)
       \/ IsObject(nodes, cb.curr) /\ Freed(oscs, nodes[cb.curr].osc)
    /\ fault' = "segv"
    /\ cb' = [cb EXCEPT !.uaf = @ \/ cb.curr # Wild]
    /\ UNCHANGED <<fixed, oscs, nodes, player, main>>

\* out[i] = val
callback_store ==
    /\ Running /\ cb.pc = "walk"
    /\ cb.curr = NULL
    /\ cb' = [cb EXCEPT !.pc = "sample", !.out = Append(@, cb.val), !.i = @ + 1]
    /\ UNCHANGED <<fixed, oscs, nodes, player, main, fault>>

\* pthread_mutex_unlock(&player->osc_list_lock)
callback_unlock ==
    /\ Running /\ cb.pc = "unlock"
    /\ player' = [player EXCEPT
                    !.osc_list_lock = pthread_mutex_unlock(player.osc_list_lock)]
    /\ cb' = [cb EXCEPT !.pc = "write", !.unlocks = @ + 1]
    /\ UNCHANGED <<fixed, oscs, nodes, main, fault>>

\* if(player->write_output) sf_write_float(...); return 0
callback_write ==
    /\ Running /\ cb.pc = "write"
    /\ player' = [player EXCEPT
                    !.written = IF player.write_output = 1 THEN @ + 1 ELSE @]
    /\ cb' = [CbIdle EXCEPT !.calls = cb.calls]
    /\ UNCHANGED <<fixed, oscs, nodes, main, fault>>

(***************************************************************************)
(* The program: main's thread and PortAudio's                              *)
(***************************************************************************)
MainStep(room, notes) ==
    \/ MainUnlock \/ start_stream \/ MainClose
    \/ synch_update_begin \/ synch_update_test \/ synch_update_remove
    \/ MainNotes(room)
    \/ add_osc_lock \/ add_osc_new(notes) \/ add_osc_nomem(notes)
    \/ add_osc_link \/ add_osc_finish \/ add_osc_unlock
    \/ stop_stream
    \/ free_audio_player_begin
    \/ free_audio_player_loop \/ free_audio_player_close
    \/ free_audio_player_close_unset

CallbackStep ==
    \/ callback_lock \/ callback_sample \/ callback_tick \/ callback_store
    \/ callback_unlock \/ callback_write

Next == MainStep(MaxConcOsc, ConcNotes) \/ callback_begin \/ CallbackStep \/ callback_segv

Spec == Init /\ [][Next]_vars

\* The same program when no call of the callback overlaps an operation of
\* main: a call begins while main sleeps in Pa_Sleep or waits in
\* Pa_StopStream, and main goes on when the call has returned.
MainAsleep == main.pc \in {"loop", "stop"}

SerialNext ==
    \/ CbQuiet /\ MainStep(MaxOsc, Notes)
    \/ MainAsleep /\ callback_begin
    \/ CallbackStep

SerialSpec == Init /\ [][SerialNext]_vars

(***************************************************************************)
(* Properties of the oscillator                                            *)
(***************************************************************************)
\* The oscillator exists and has only been ticked one call at a time.
Ticked == tst.osc # NoOsc /\ ~tst.aged

\* length and waittime in samples, when they are whole numbers of samples.
WholeSamples(seconds) == FMul(seconds, IntToFloat(SampleRate))[2] = 1
Samples(seconds) == FMul(seconds, IntToFloat(SampleRate))[1]

\* C7: an oscillator created with wait time 0 and a length of D samples, D a
\* positive integer, is not expired after k calls of oscil_tick for k <= D
\* and is expired after k calls for k >= D+1; a call of oscil_tick is an
\* active one exactly when 0 <= curr_sample <= slength before it.
C7_ExpiresAfterLength ==
    (Ticked /\ tst.wait = IntToFloat(0)
            /\ WholeSamples(tst.length) /\ Samples(tst.length) > 0)
    => LET D == Samples(tst.length)
       IN  /\ tst.osc.curr_sample = tst.k
           /\ oscil_expired(tst.osc) <=> tst.k >= D + 1
           /\ tst.k >= 1 =>
                (tst.last.active <=>
                    (0 <= tst.prev.curr_sample /\ tst.prev.curr_sample <= D))

\* C7's case: such an oscillator right after call D+1, expired.
C7_Witness ==
    /\ Ticked /\ tst.wait = IntToFloat(0)
    /\ WholeSamples(tst.length) /\ Samples(tst.length) > 0
    /\ tst.k = Samples(tst.length) + 1
    /\ oscil_expired(tst.osc)
    /\ ~oscil_expired(tst.prev)

\* C8: for an oscillator created with a wait time of W samples, each of the
\* first W calls of oscil_tick returns 0 and changes curr_sample by +1 and
\* nothing else (no table read, index as it was), and call W+1 is an active
\* tick, the first one.
C8_PreRollSilent ==
    (Ticked /\ WholeSamples(tst.wait) /\ tst.k >= 1)
    => LET W == Samples(tst.wait)
       IN  /\ tst.k <= W =>
                /\ tst.last.ret = IntToFloat(0)
                /\ ~tst.last.active
                /\ tst.last.read = -1
                /\ tst.osc = [tst.prev EXCEPT
                                !.curr_sample = tst.prev.curr_sample + 1]
                /\ tst.osc.index = tst.osc0.index
           /\ tst.k = W + 1 => tst.last.active

\* C8's case: a wait of at least one sample, right after call W+1.
C8_Witness ==
    /\ Ticked /\ WholeSamples(tst.wait) /\ Samples(tst.wait) >= 1
    /\ tst.k = Samples(tst.wait) + 1
    /\ tst.last.active
    /\ tst.rets[Samples(tst.wait)] = IntToFloat(0)

\* C9: once oscil_expired holds for an oscillator, every later call of
\* oscil_tick returns 0 and leaves index alone, and oscil_expired holds after
\* it: the oscillator is never pre-roll or active again.
C9_ExpiredAbsorbing ==
    (tst.osc # NoOsc /\ tst.k >= 1 /\ oscil_expired(tst.prev))
    => /\ tst.last.ret = IntToFloat(0)
       /\ tst.osc.index = tst.prev.index
       /\ oscil_expired(tst.osc)
       /\ ~tst.trapped

\* C10: on an active tick the envelope is evaluated at curr_sample / slength
\* with curr_sample as it was before the tick's increment, so at 0 on the
\* first active tick and at 1 on the last, and always within [0, 1].
C10_PercentBeforeIncrement ==
    (Ticked /\ tst.k >= 1 /\ tst.last.active)
    => /\ tst.last.perc = FDiv(IntToFloat(tst.prev.curr_sample), tst.osc.slength)
       /\ ~FLess(tst.last.perc, IntToFloat(0))
       /\ ~FGreater(tst.last.perc, IntToFloat(1))
       /\ IsFinite(tst.last.perc)

\* C24: an active tick advances the table position by exactly
\* freq * tablen / samplerate, fraction included (when the position does not
\* wrap), and reads the table at the floor of the position; so after k
\* active ticks without a wrap the position is k * freq * tablen / samplerate.
C24_FractionalPhase ==
    LET step == FDiv(FMul(tst.osc.freq, IntToFloat(tst.osc.tablen)),
                     IntToFloat(tst.osc.samplerate))
        next == FAdd(IntToFloat(tst.prev.index), step)
    IN  (Ticked /\ tst.k >= 1 /\ tst.last.active
            /\ FLess(next, IntToFloat(tst.osc.tablen)))
        => /\ IntToFloat(tst.osc.index) = next
           /\ tst.last.read = tst.prev.index

\* C28: for an oscillator whose increment is at least 0 and below tablen,
\* every read of the table by oscil_tick is at an index from 0 to tablen-1.
C28_IndexBelowTablen ==
    (Ticked /\ tst.k >= 1 /\ tst.last.active
        /\ tst.osc0.inc >= 0 /\ tst.osc0.inc < tst.osc0.tablen)
    => /\ tst.last.read >= 0
       /\ tst.last.read < tst.osc.tablen
       /\ TabInBounds(tst.osc.tab, tst.last.read)

(***************************************************************************)
(* Properties of the table generators                                      *)
(***************************************************************************)
\* C26: for every table length N, gen_square_tab(N) produces exactly N/2
\* entries equal to 1 followed by exactly N/2 entries equal to -1, and no
\* other entries.
C26_SquareHalves ==
    tst.fn = "square"
    => LET half == tst.len \div 2
       IN  tabs[1] = [i \in 1..(2 * half) |->
                        IF i <= half THEN IntToFloat(1) ELSE IntToFloat(-1)]

\* C26 as amended: gen_square_tab(N) has N entries, the first N/2 (rounded
\* down) equal to 1 and all the others, N minus that many, equal to -1; the
\* two counts are both N/2 when N is even.
C26_SquareFloorHalves ==
    tst.fn = "square"
    => LET tab   == tabs[1]
           ones  == {i \in 1..Len(tab) : tab[i] = IntToFloat(1)}
           minus == {i \in 1..Len(tab) : tab[i] = IntToFloat(-1)}
       IN  /\ Len(tab) = tst.len
           /\ ones \cup minus = 1..Len(tab)
           /\ \A i \in ones, j \in minus : i < j
           /\ 2 * Cardinality(ones) <= tst.len
           /\ tst.len <= 2 * Cardinality(ones) + 1
           /\ Cardinality(minus) = tst.len - Cardinality(ones)
           /\ tst.len % 2 = 0 => Cardinality(ones) = Cardinality(minus)

C26_Witness ==
    /\ tst.fn = "square"
    /\ tst.len = 5
    /\ tabs[1] = <<IntToFloat(1), IntToFloat(1),
                   IntToFloat(-1), IntToFloat(-1), IntToFloat(-1)>>

\* C27: gen_warmth_tab(len, temp) with any temp outside 0..7 uses the same
\* harmonic weights as temp = 0, namely weight 1 on the fundamental and 0 on
\* every other harmonic; each temp in 1..7 selects its own fixed preset.
C27_WarmthPresets ==
    tst.fn = "warmth"
    => LET fundamental == [j \in 1..10 |->
                              IF j = 1 THEN IntToFloat(1) ELSE IntToFloat(0)]
           weights(entry) == [j \in 1..10 |-> entry[j].amp]
       IN  /\ Len(tabs[1]) = tst.len
           /\ \A i \in 1..tst.len : weights(tabs[1][i]) = tst.amps
           /\ tst.temp \notin 1..7 => tst.amps = fundamental
           /\ tst.temp \in 1..7
                => /\ tst.amps # fundamental
                   /\ \A other \in (1..7) \ {tst.temp} :
                        gen_warmth_tab(1, other)[1]
                            # gen_fourier_tab(1, tst.amps)[1]

C27_Witness ==
    /\ tst.fn = "warmth"
    /\ tst.temp = 9
    /\ tst.len = 2
    /\ tabs[1][2][1] = [amp |-> IntToFloat(1), turns |-> Rat(1, 2)]
    /\ tabs[1][2][2] = [amp |-> IntToFloat(0), turns |-> IntToFloat(1)]

(***************************************************************************)
(* Properties of the envelope                                              *)
(***************************************************************************)
\* The last call was op, on the envelope load_bp_file returned.
Called(op) == tst.pc = "loaded" /\ tst.op = op

LastBp(bp) == bp.list[bp.len]

InArray(bp, reads) == reads \subseteq 0..(bp.len - 1)

\* C11: for a non-empty envelope and a time at or after the time of its last
\* breakpoint (a single breakpoint included), get_timeval returns the value
\* of the last breakpoint and reads only entries 0..len-1 of the list.
C11_LastValueFromTheEnd ==
    (Called("time") /\ bps[1].len >= 1
        /\ IsFinite(LastBp(bps[1]).time)
        /\ ~FLess(tst.arg, LastBp(bps[1]).time))
    => /\ tst.ret = LastBp(bps[1]).val
       /\ InArray(bps[1], tst.reads)

ValidEnvelope(bp) ==
    /\ bp.len >= 1
    /\ bp.list[1].time = IntToFloat(0)
    /\ \A j \in 1..bp.len : IsFinite(bp.list[j].time)
    /\ \A j \in 1..(bp.len - 1) : ~FLess(bp.list[j + 1].time, bp.list[j].time)

\* C13: on a valid envelope get_percentval(bp, 0) is the value of the first
\* breakpoint and get_percentval(bp, 1) the value of the last.
C13_PercentEnds ==
    (Called("percent") /\ ValidEnvelope(bps[1]))
    => /\ tst.arg = IntToFloat(0) => tst.ret = bps[1].list[1].val
       /\ tst.arg = IntToFloat(1) => tst.ret = LastBp(bps[1]).val

\* C14: for a time strictly between the times of breakpoints i and i+1, i
\* the first index whose successor's time exceeds it, get_timeval returns the
\* linear interpolation between the two and reads inside the list; with
\* breakpoints (0,0), (10,1) and time 5 it returns 1/2.
C14_LinearBetween ==
    Called("time") =>
      LET bp == bps[1]
          t  == tst.arg
          \* the indices whose successor's time exceeds t, and the first
          S  == {j \in 0..(bp.len - 2) : FGreater(bp.list[j + 2].time, t)}
          i  == IF S = {} THEN -1 ELSE CHOOSE j \in S : \A k \in S : j <= k
          a  == bp.list[i + 1]
          b  == bp.list[i + 2]
          \* the point at time t of the straight line through a and b
          line == FAdd(a.val, FDiv(FMul(FSub(t, a.time), FSub(b.val, a.val)),
                                   FSub(b.time, a.time)))
      IN  /\ (i >= 0 /\ FLess(a.time, t))
             => (tst.ret = line /\ InArray(bp, tst.reads))
          /\ (bp.list = <<Breakpoint(IntToFloat(0), IntToFloat(0)),
                          Breakpoint(IntToFloat(10), IntToFloat(1))>>
               /\ t = IntToFloat(5))
             => tst.ret = Rat(1, 2)

C14_Witness ==
    /\ Called("time")
    /\ bps[1].list = <<Breakpoint(IntToFloat(0), IntToFloat(0)),
                       Breakpoint(IntToFloat(10), IntToFloat(1))>>
    /\ tst.arg = IntToFloat(5)
    /\ tst.ret = Rat(1, 2)
    /\ tst.reads = {0, 1}

\* C20: load_bp_file returns NULL for every file with a line that is no
\* pair of numbers, with a first time other than 0, or with a time smaller
\* than the one of the line before it; and in every envelope it returns the
\* first time is 0 and no breakpoint has a time smaller than that of a
\* breakpoint before it.
C20_LoadedIsOrdered ==
    /\ (/\ tst.pc # "file"
        /\ \E j \in 1..Len(tst.file) :
              \/ tst.file[j].converted # 2
              \/ j = 1 /\ tst.file[j].time # IntToFloat(0)
              \/ j > 1 /\ tst.file[j - 1].converted = 2
                       /\ FLess(tst.file[j].time, tst.file[j - 1].time))
       => tst.pc = "failed"
    /\ tst.pc = "loaded"
       => /\ bps[1].len >= 1 => bps[1].list[1].time = IntToFloat(0)
          /\ \A j, k \in 1..bps[1].len :
                (j < k /\ IsFinite(bps[1].list[j].time)
                       /\ IsFinite(bps[1].list[k].time))
                => ~FLess(bps[1].list[k].time, bps[1].list[j].time)

\* C21: every envelope load_bp_file returns has at least one breakpoint; a
\* file with no lines is not returned as an envelope.
C21_LoadedIsNotEmpty ==
    tst.pc = "loaded" => (bps[1].len >= 1 /\ tst.file # <<>>)

\* C22: in every envelope load_bp_file returns maxtime is the time of the
\* last breakpoint stored, and it is never what the local variable held
\* before the first line was read.
C22_MaxtimeIsLastTime ==
    tst.pc = "loaded"
    => /\ bps[1].len >= 1 => bps[1].maxtime = LastBp(bps[1]).time
       /\ \A stack \in StackTimes :
            load_bp_file(tst.file, stack).bp.maxtime = bps[1].maxtime

(***************************************************************************)
(* Properties of the player                                                *)
(***************************************************************************)
\* Code of main that reads or writes the list, and code of the callback
\* that does.
MainInList == main.pc \in {"su_test", "su_remove", "ao_link", "ao_fin", "fp_loop"}

RenderInList == cb.pc \in {"sample", "walk"}

Holds(thread) ==
    player.osc_list_lock.valid /\ player.osc_list_lock.owner = thread

\* C1: every operation on the list (add_osc, synch_update and the
\* oscil_list_remove it calls, free_audio_player, the callback) runs holding
\* osc_list_lock, and main and the callback are never both inside code that
\* accesses the list.  Stated for a mutex that works.
C1_ListUnderLock ==
    player.osc_list_lock.valid
    => /\ MainInList => Holds("main")
       /\ RenderInList => Holds("render")
       /\ ~(MainInList /\ RenderInList)

\* C2: the callback never dereferences or ticks a node or an oscillator that
\* synch_update / oscil_list_remove has freed.  Stated for a mutex that works.
C2_NoTickAfterRemove ==
    player.osc_list_lock.valid => ~cb.uaf

\* C3: the callback never reads a node that oscil_list_add has not finished
\* (its next still unset) nor follows such a pointer, and a call of the
\* callback that began after add_osc returned ticks the added oscillator on
\* every sample (as long as it has not been removed).
C3_AddAtomic ==
    /\ ~cb.torn
    /\ cb.curr # Wild
    /\ (cb.pc = "walk" /\ cb.curr = NULL)
       => \A o \in cb.present : oscs[o].frees = 0 => o \in cb.ticked

\* The oscillator after k calls of oscil_tick, and the value call k returns.
RECURSIVE TickN(_, _)
TickN(osc, k) == IF k = 0 THEN osc ELSE oscil_tick(TickN(osc, k - 1)).osc

RetN(osc, k) == oscil_tick(TickN(osc, k - 1)).ret

\* The sum, over the first j oscillators of a list, of the value call k returns.
RECURSIVE SumRets(_, _, _)
SumRets(list, k, j) ==
    IF j = 0 THEN IntToFloat(0)
    ELSE FAdd(SumRets(list, k, j - 1), RetN(list[j], k))

\* The oscillators of the list a call of the callback found, as they were.
CbBefore == [j \in 1..Len(cb.snap) |-> cb.snapOscs[nodes[cb.snap[j]].osc].val]

\* C4: a call of the callback for n frames during which the list's
\* membership does not change writes exactly n samples, sample i being the
\* sum of what call i of oscil_tick returns on each oscillator of the list
\* (0 for an empty list), and leaves every oscillator ticked exactly n times:
\* curr_sample is n higher.
C4_FrameIsSumOfTicks ==
    cb.pc \in {"unlock", "write"}
    => /\ Len(cb.out) = cb.n
       /\ \A i \in 1..cb.n : cb.out[i] = SumRets(CbBefore, i, Len(CbBefore))
       /\ NodesFrom(nodes, player.osc_list) = cb.snap
       /\ \A j \in 1..Len(cb.snap) :
            LET now == oscs[nodes[cb.snap[j]].osc].val
            IN  /\ now = TickN(CbBefore[j], cb.n)
                /\ now.curr_sample = CbBefore[j].curr_sample + cb.n

\* C4's case: a call for two frames or more on a list of two oscillators or
\* more, one of them silent in the first sample, with a sample that is not 0.
C4_Witness ==
    /\ cb.pc = "write"
    /\ cb.n >= 2
    /\ Len(cb.snap) >= 2
    /\ \E j \in 1..Len(cb.snap) : OutOfRange(CbBefore[j])
    /\ \E i \in 1..cb.n : cb.out[i] # IntToFloat(0) /\ IsFinite(cb.out[i])

\* C5: in every call of the callback pthread_mutex_lock is called once,
\* before the first sample, and pthread_mutex_unlock once, after the last;
\* between the two the render thread owns the mutex (when it is one), and at
\* the write to the output file, which comes after the unlock, it does not.
C5_WriteAfterUnlock ==
    /\ cb.pc = "lock" => cb.locks = 0 /\ cb.unlocks = 0 /\ cb.i = 0
    /\ cb.pc \in {"sample", "walk"}
       => /\ cb.locks = 1 /\ cb.unlocks = 0
          /\ player.osc_list_lock.valid => Holds("render")
    /\ cb.pc = "unlock" => cb.locks = 1 /\ cb.unlocks = 0 /\ cb.i = cb.n
    /\ cb.pc = "write"
       => /\ cb.locks = 1 /\ cb.unlocks = 1 /\ Len(cb.out) = cb.n
          /\ ~Holds("render")
    /\ player.written <= cb.calls
    /\ player.written = (IF cb.pc = "idle" THEN cb.calls ELSE cb.calls - 1)
                            * player.write_output

\* C5's case: the callback is about to write its frame to the file while
\* main already holds the lock for an add_osc.
C5_Witness ==
    /\ cb.pc = "write"
    /\ player.write_output = 1
    /\ cb.n >= 2
    /\ Holds("main")

\* C6: when synch_update returns (no call of the callback during it), the
\* list holds exactly the oscillators that were not expired when it began,
\* in the order they had and each in the state it had, and every oscillator
\* that was expired has been taken out and freed once, node and oscillator.
C6_ReapExactlyExpired ==
    main.pc = "notes"
    => LET Exp(p) == oscil_expired(main.beforeOscs[nodes[p].osc].val)
       IN  /\ NodesFrom(nodes, player.osc_list)
                = SelectSeq(main.before, LAMBDA p : ~Exp(p))
           /\ \A j \in 1..Len(main.before) :
                LET p == main.before[j]
                    o == nodes[p].osc
                IN  IF Exp(p)
                    THEN nodes[p].frees = 1 /\ oscs[o].frees = 1
                    ELSE /\ nodes[p].frees = 0
                         /\ oscs[o] = main.beforeOscs[o]

\* C6's case: a list of three with only the middle oscillator expired.
C6_Witness ==
    /\ main.pc = "notes"
    /\ Len(main.before) = 3
    /\ ~oscil_expired(main.beforeOscs[nodes[main.before[1]].osc].val)
    /\ oscil_expired(main.beforeOscs[nodes[main.before[2]].osc].val)
    /\ ~oscil_expired(main.beforeOscs[nodes[main.before[3]].osc].val)
    /\ Len(NodesFrom(nodes, player.osc_list)) = 2

\* C15: every oscillator main creates gets an id greater than the ids of all
\* it created before, so no two oscillators of the list have the same id.
C15_IdsIncrease ==
    /\ \A j, k \in 1..Len(oscs) : j < k => oscs[j].val.id < oscs[k].val.id
    /\ \A j \in 1..Len(oscs) : oscs[j].val.id <= main.oscID
    /\ LET l == NodesFrom(nodes, player.osc_list)
       IN  \A j, k \in 1..Len(l) :
              j # k => oscs[nodes[l[j]].osc].val.id # oscs[nodes[l[k]].osc].val.id

\* C15's case: two oscillators in the list, created one after the other.
C15_Witness ==
    /\ main.oscID = 2
    /\ main.pc = "loop"
    /\ LET l == NodesFrom(nodes, player.osc_list)
       IN  /\ Len(l) = 2
           /\ oscs[nodes[l[1]].osc].val.id = 0
           /\ oscs[nodes[l[2]].osc].val.id = 1

\* C16: oscil_list_remove unlinks and frees the first node whose oscillator
\* has the id, and its oscillator, moving the head when that node was the
\* head and keeping the other nodes in their order; when no node has the id,
\* or the list is empty, list and heap are as before and nothing is freed.
C16_RemoveFirstMatch ==
    tst.op = "remove"
    => LET l    == NodesFrom(tst.nodes, tst.head)
           hits == {j \in 1..Len(l) : tst.oscs[tst.nodes[l[j]].osc].val.id = tst.id}
           j0   == CHOOSE j \in hits : \A h \in hits : j <= h
           now  == NodesFrom(nodes, player.osc_list)
       IN  IF hits = {}
           THEN nodes = tst.nodes /\ oscs = tst.oscs /\ player.osc_list = tst.head
           ELSE /\ now = SubSeq(l, 1, j0 - 1) \o SubSeq(l, j0 + 1, Len(l))
                /\ player.osc_list = (IF now = <<>> THEN NULL ELSE now[1])
                /\ \A j \in 1..Len(now) :
                     /\ nodes[now[j]].prev = (IF j = 1 THEN NULL ELSE now[j - 1])
                     /\ nodes[now[j]].osc = tst.nodes[now[j]].osc
                /\ \A p \in 1..Len(nodes) :
                     /\ nodes[p].frees
                          = tst.nodes[p].frees + (IF p = l[j0] THEN 1 ELSE 0)
                     /\ oscs[p].frees
                          = tst.oscs[p].frees
                              + (IF p = tst.nodes[l[j0]].osc THEN 1 ELSE 0)
                     /\ oscs[p].val = tst.oscs[p].val

\* C16's case: three nodes, the last two with the same id, which is removed.
C16_Witness ==
    /\ tst.op = "remove"
    /\ LET l == NodesFrom(tst.nodes, tst.head)
       IN  /\ Len(l) = 3
           /\ tst.oscs[tst.nodes[l[1]].osc].val.id # tst.id
           /\ tst.oscs[tst.nodes[l[2]].osc].val.id = tst.id
           /\ tst.oscs[tst.nodes[l[3]].osc].val.id = tst.id
           /\ NodesFrom(nodes, player.osc_list) = <<l[1], l[3]>>

\* C17: add_osc leaves the new oscillator's node as the last element of the
\* list (its next NULL, its prev the former tail, or NULL as head of a list
\* that was empty), has released the lock when it returns, and leaves the
\* order and the state of the oscillators that were in the list unchanged.
C17_AppendsAtTail ==
    [][add_osc_unlock
       => /\ NodesFrom(nodes', player'.osc_list) = Append(main.before, main.node)
          /\ nodes'[main.node].next = NULL
          /\ nodes'[main.node].prev
               = (IF main.before = <<>> THEN NULL
                  ELSE main.before[Len(main.before)])
          /\ main.before = <<>> => player'.osc_list = main.node
          /\ \A p \in Range(main.before) :
               /\ nodes'[p].osc = nodes[p].osc
               /\ oscs'[nodes[p].osc] = main.beforeOscs[nodes[p].osc]
          /\ ~(Holds("main"))'
          /\ player.osc_list_lock.valid
               => player'.osc_list_lock.owner = "nobody"]_vars

\* C17's case: add_osc on a list of two, about to return.
C17_Witness ==
    /\ main.pc = "ao_unlock"
    /\ Len(main.before) = 2
    /\ Holds("main")
    /\ NodesFrom(nodes, player.osc_list) = Append(main.before, main.node)

\* C18: after the loop of free_audio_player osc_list is NULL, and every node
\* that was in the list and the oscillator of each has been freed once.
C18_DisposalFreesAll ==
    ((main.pc = "fp_loop" /\ main.curr = NULL) \/ main.pc = "done")
    => /\ player.osc_list = NULL
       /\ \A p \in Range(main.before) :
            nodes[p].frees = 1 /\ oscs[nodes[p].osc].frees = 1
       /\ \A p \in 1..Len(nodes) : nodes[p].frees = 1 /\ oscs[p].frees = 1

\* C18's case: the player is freed with two or more oscillators in the list
\* and one reaped earlier.
C18_Witness ==
    /\ main.pc = "done"
    /\ Len(main.before) >= 2
    /\ Len(nodes) > Len(main.before)

C25_TablesUntouched ==
    [][/\ tabs' = tabs
       /\ bps' = bps
       /\ \A p \in 1..Len(oscs') :
            /\ Len(tabs'[oscs'[p].val.tab]) = oscs'[p].val.tablen
            /\ bps'[oscs'[p].val.vol_bp].len >= 1]_vars

\* C25's case: the run is over; one oscillator was ticked and then removed
\* by synch_update, another, which used the same table and envelope, was
\* disposed of by free_audio_player.
C25_Witness ==
    /\ main.pc = "done"
    /\ tabs = Tables
    /\ \E p, q \in 1..Len(oscs) :
         /\ p # q
         /\ oscs[p].val.tab = oscs[q].val.tab
         /\ oscs[p].val.vol_bp = oscs[q].val.vol_bp
         /\ oscs[p].frees > 0 /\ oscs[p].val.curr_sample > 0
         /\ \A j \in 1..Len(main.before) : nodes[main.before[j]].osc # p
         /\ \E j \in 1..Len(main.before) : nodes[main.before[j]].osc = q

\* C23: if allocating the Oscillator or its list node fails during add_osc,
\* the insertion is aborted, the caller is told that creation failed (add_osc
\* has returned to main), the lock is released, and the oscillator list is
\* exactly as it was before the call.
C23_FailedAddIsUndone ==
    fault = "malloc"
    => /\ main.pc \notin {"ao_lock", "ao_new", "ao_link", "ao_fin", "ao_unlock"}
       /\ ~Holds("main")
       /\ NodesFrom(nodes, player.osc_list) = main.before

\* C30: under fair scheduling every thread that attempts to take
\* osc_list_lock (a call of the callback, or add_osc) eventually acquires
\* it, finishes its critical section and releases it; no thread holds the
\* lock forever and no state is a deadlock.  What a finite run can refute:
\* a thread that has come back from pthread_mutex_lock has acquired the
\* lock; a thread waits only for a lock the other thread holds inside its
\* critical section; and the process is not killed by a bad access while a
\* thread holds the lock or waits for it.  Stated for a mutex that works.
C30_LockProgress ==
    player.osc_list_lock.valid
    => /\ cb.pc \in {"sample", "walk", "unlock"} => Holds("render")
       /\ main.pc \in {"ao_new", "ao_link", "ao_fin", "ao_unlock"} => Holds("main")
       /\ (cb.pc = "lock" /\ ~CanLock(player.osc_list_lock)) => Holds("main")
       /\ (main.pc = "ao_lock" /\ ~CanLock(player.osc_list_lock)) => Holds("render")
       /\ fault = "segv"
            => /\ ~Holds("render") /\ ~Holds("main")
               /\ cb.pc # "lock" /\ main.pc # "ao_lock"

\* C29: provided the callback keeps being invoked and main's loop keeps
\* calling synch_update, every oscillator added (the notes have a finite
\* wait and length) eventually is expired and removed from the list.  What
\* a finite run can refute: the process is not killed by a bad access of
\* the callback while main is in its loop and an oscillator that has not
\* expired is in the list.  Stated for a mutex that works.
C29_EventuallyReaped ==
    (/\ player.osc_list_lock.valid
     /\ fault = "segv"
     /\ main.pc \notin {"stop", "free", "fp_loop", "done"})
    => \A n \in Range(NodesFrom(nodes, player.osc_list)) :
          oscil_expired(oscs[nodes[n].osc].val)

\* C31: every unlock of osc_list_lock is executed by a thread that has
\* acquired the lock and not yet released it, and the lock is initialised
\* and unlocked before the first attempt to acquire it: every step that
\* returns from pthread_mutex_unlock is taken by the owner, and every step
\* that returns from pthread_mutex_lock finds a valid mutex nobody owns.
C31_LockPaired ==
    [][/\ (main.pc \in {"unlock", "ao_unlock"} /\ main'.pc # main.pc)
            => Holds("main")
       /\ (cb.pc = "unlock" /\ cb'.pc # cb.pc) => Holds("render")
       /\ (\/ main.pc = "ao_lock" /\ main'.pc # main.pc
           \/ cb.pc = "lock" /\ cb'.pc # cb.pc)
            => /\ player.osc_list_lock.valid
               /\ player.osc_list_lock.owner = "nobody"]_vars


\* C32: whatever the callback does between synch_update's test and its
\* removal, a step of synch_update that frees an oscillator frees one whose
\* curr_sample is above its slength in the state the removal acts on.
C32_RemovedAreExpired ==
    [][main.pc = "su_remove" /\ main'.pc = "su_test"
        => \A p \in 1..Len(oscs) :
              oscs'[p].frees # oscs[p].frees
                => /\ IsFinite(oscs[p].val.slength)
                   /\ FLess(oscs[p].val.slength,
                            IntToFloat(oscs[p].val.curr_sample))]_vars

\* synch_update has removed an oscillator that the callback ticked after
\* synch_update began, and the callback is inside a call.
C32_Witness ==
    /\ main.pc = "su_test"
    /\ cb.pc \in {"sample", "walk", "unlock"}
    /\ \E p \in 1..Len(main.beforeOscs) :
          /\ main.beforeOscs[p].frees = 0
          /\ oscs[p].frees = 1
          /\ ~oscil_expired(main.beforeOscs[p].val)
          /\ oscil_expired(oscs[p].val)

\* C33: after every call of oscil_list_add or oscil_list_remove the list is a
\* well-formed doubly linked list: no node comes twice, the head's prev and
\* the last node's next are NULL, each node's next has that node as its
\* prev, and every node is allocated and holds an allocated oscillator.
C33_WellFormed ==
    LET l == NodesFrom(nodes, player.osc_list)
    IN  /\ player.osc_list = NULL \/ IsObject(nodes, player.osc_list)
        /\ \A i, j \in 1..Len(l) : l[i] = l[j] => i = j
        /\ Len(l) > 0 => /\ nodes[l[1]].prev = NULL
                         /\ nodes[l[Len(l)]].next = NULL
        /\ \A j \in 1..(Len(l) - 1) : nodes[l[j + 1]].prev = l[j]
        /\ \A j \in 1..Len(l) :
              /\ nodes[l[j]].frees = 0
              /\ IsObject(oscs, nodes[l[j]].osc)
              /\ oscs[nodes[l[j]].osc].frees = 0

\* oscil_list_remove has taken the middle node out of a list of three.
C33_Witness ==
    /\ tst.op = "remove"
    /\ Len(NodesFrom(tst.nodes, tst.head)) = 3
    /\ Len(NodesFrom(nodes, player.osc_list)) = 2
    /\ \E c \in 1..Len(nodes) :
          /\ nodes[c].frees = 1 /\ tst.nodes[c].frees = 0
          /\ tst.nodes[c].prev # NULL /\ tst.nodes[c].next # NULL

\* C34: on an envelope whose first time is 0 and whose times never decrease
\* (equal neighbours allowed), for a time t with 0 <= t < the last time, the
\* index i get_timeval's scan ends at has a successor in the list and
\* time[i] <= t < time[i+1]; the denominator time[i+1] - time[i] is above 0
\* and the value returned is a number.
C34_SegmentHoldsTime ==
    (/\ Called("time") /\ ValidEnvelope(bps[1])
     /\ ~FLess(tst.arg, IntToFloat(0))
     /\ FLess(tst.arg, LastBp(bps[1]).time))
    => LET bp == bps[1]
           i  == get_timeval_index(bp, tst.arg)
       IN  /\ i >= 0 /\ i <= bp.len - 2
           /\ ~FLess(tst.arg, bp.list[i + 1].time)
           /\ FLess(tst.arg, bp.list[i + 2].time)
           /\ FLess(IntToFloat(0),
                    FSub(bp.list[i + 2].time, bp.list[i + 1].time))
           /\ {i, i + 1} \subseteq tst.reads
           /\ IsFinite(tst.ret)

\* get_timeval was asked for a time behind a plateau: the times are 0, 1, 1,
\* 2 and the time is 3/2, so the segment starts at the plateau's second point.
C34_Witness ==
    /\ Called("time") /\ ValidEnvelope(bps[1])
    /\ bps[1].len = 4
    /\ bps[1].list[2].time = bps[1].list[3].time
    /\ tst.arg = Rat(3, 2)
    /\ FLess(tst.arg, LastBp(bps[1]).time)
    /\ get_timeval_index(bps[1], tst.arg) = 2

(***************************************************************************)
(* Properties of main's choice of a note                                   *)
(***************************************************************************)
\* C35: for every warmth of the region between -255 and 255 and every value
\* randint draws around it, the index ind into tabs is one of 0..NUM_TABS-1.
C35_TableIndexInRange ==
    tst.op = "note" => tst.ind \in 0..(NUM_TABS - 1)

\* C36: for every brightness of the region between 0 and 1 and every value
\* randfloat draws, the index into key->freqs is one of 0..key->len-1, also
\* when the brightness was cut to 1.
C36_FreqIndexInRange ==
    tst.op = "note" => tst.idx \in 0..(tst.len - 1)

(***************************************************************************)
(* Properties of the output file                                           *)
(***************************************************************************)
\* C37: free_audio_player closes the output file only when one was opened:
\* sf_close is never called on the outfile of a player made without a file
\* name, nothing is written to it, and when free_audio_player has returned
\* for a player with an output file that file is closed.
C37_ClosesOnlyOpenedFile ==
    /\ fault # "sf_close"
    /\ player.write_output = 0
         => (player.outfile = "unset" /\ player.written = 0)
    /\ (main.pc = "done" /\ player.write_output = 1)
         => player.outfile = "closed"
=============================================================================
